---- MODULE Spec2Model ----
(***************************************************************************)
(* Model of index.js: an Express server with two handlers on /webhook     *)
(* (the GET verification handshake and the POST event receiver) and the   *)
(* asynchronous responder handleMessage / sendReply.                      *)
(*                                                                         *)
(* Node runs every handler and every continuation of an async function to *)
(* completion before anything else runs, so each action below is one such *)
(* run-to-completion step: a whole route handler, or the continuation of  *)
(* handleMessage after one of its awaits settles.                         *)
(***************************************************************************)
EXTENDS Naturals, Sequences, FiniteSets

\* ------------------------------------------------------------------ bounds
\* HTTP requests handled in one behaviour.
MaxRequests == 2
\* handleMessage invocations in one behaviour.
MaxTasks == 2

\* ------------------------------------------------------------- JS values
\* The JavaScript value undefined (an absent query parameter or property).
Undefined == "<undefined>"

\* JavaScript truthiness of a string-or-undefined value.
Truthy(v) == v # Undefined /\ v # ""

\* ----------------------------------------------------------- configuration
WEBHOOK_VERIFY_TOKEN == "s3cret"

\* --------------------------------------------------------------- responses
\* No response has been written for the request.
NoResponse == [status |-> 0, body |-> Undefined]

\* res.status(code).send(body): send(undefined) writes an empty body.
Send(code, body) == [status |-> code, body |-> IF body = Undefined THEN "" ELSE body]

\* res.sendStatus(code): the status with its reason phrase as body.
SendStatus(code) ==
  [status |-> code,
   body |-> IF code = 403 THEN "Forbidden" ELSE IF code = 404 THEN "Not Found" ELSE "OK"]

\* Express answers 500 when a route handler throws synchronously.
UncaughtError == [status |-> 500, body |-> "Internal Server Error"]

\* ------------------------------------------------------------------ inputs
Modes == {Undefined, "", "subscribe", "unsubscribe"}
Tokens == {Undefined, "", WEBHOOK_VERIFY_TOKEN, "WRONG"}
Challenges == {Undefined, "123", "abc"}
Queries == [mode : Modes, token : Tokens, challenge : Challenges]
NoQuery == [mode |-> Undefined, token |-> Undefined, challenge |-> Undefined]

\* A messaging event: sender.id and the optional message with its optional text.
NoMessage == [present |-> FALSE, text |-> Undefined]
Text(s) == [present |-> TRUE, text |-> s]
Event(id, m) == [sender |-> id, message |-> m]

\* The messaging arrays an entry may carry: no event, one event (with empty
\* text, with text), and a first event without message followed by an event
\* with text.
Messagings ==
  { <<>>,
    << Event("U1", Text("")) >>,
    << Event("U1", Text("Hi")) >>,
    << Event("U2", Text("Yo")) >>,
    << Event("U1", NoMessage), Event("U2", Text("Yo")) >> }
Entries == [messaging : Messagings]
\* body.entry: batches of no, one and two entries.
EntryLists ==
  {<<>>} \cup {<<e>> : e \in Entries} \cup {<<e, f>> : e \in Entries, f \in Entries}
Objects == {"page", "user"}
Bodies == [object : Objects, entry : EntryLists]
NoBody == [object |-> Undefined, entry |-> <<>>]

VARIABLES
  nreq,   \* number of HTTP requests handled so far
  last,   \* the most recent HTTP exchange: the request and the response written
  tasks   \* the handleMessage invocations, in dispatch order

vars == <<nreq, last, tasks>>

\* ------------------------------------------------------- GET /webhook
\* Mutant: the 200 response echoes the token instead of the challenge.
VerifyResponseEchoesToken(mode, token, challenge) ==
  IF Truthy(mode) /\ Truthy(token)
    THEN IF mode = "subscribe" /\ token = WEBHOOK_VERIFY_TOKEN
           THEN Send(200, token)
           ELSE SendStatus(403)
    ELSE NoResponse

\* Mutant: the outer `if (mode && token)` has an else branch answering 403.
VerifyResponseElse403(mode, token, challenge) ==
  IF Truthy(mode) /\ Truthy(token) /\ mode = "subscribe" /\ token = WEBHOOK_VERIFY_TOKEN
    THEN Send(200, challenge)
    ELSE SendStatus(403)

\* The response the verification handler writes for a query.
VerifyResponse(mode, token, challenge) ==
  IF Truthy(mode) /\ Truthy(token)
    THEN IF mode = "subscribe" /\ token = WEBHOOK_VERIFY_TOKEN
           THEN Send(200, challenge)
           ELSE SendStatus(403)
    ELSE NoResponse

\* ------------------------------------------------------ POST /webhook
\* webhook_event.message?.text
MessageText(event) ==
  IF event.message.present THEN event.message.text ELSE Undefined

\* The prompt handleMessage builds around the user's text.
Prompt(messageText) ==
  << "You are a helpful assistant for our Facebook Page. Please answer the following question concisely and friendly:\n\nUser: ",
     messageText, "\nAssistant:" >>

\* The call handleMessage(sender_id, message_text) up to its first await:
\* the prompt is built and model.generateContent(prompt) is in flight.
\* req and entry record which request and which entry of it made the call.
HandleMessageCall(req, entry, senderId, messageText) ==
  [req |-> req, entry |-> entry, senderId |-> senderId, messageText |-> messageText,
   prompt |-> Prompt(messageText), pc |-> "gen", genOutcome |-> "pending",
   sent |-> <<>>, sendErrors |-> 0]

\* The condition under which the forEach callback calls handleMessage.
ShouldDispatch(message_text) == Truthy(message_text)

\* body.entry.forEach(...) from entry i on: the handleMessage calls made, and
\* whether the callback threw (entry.messaging[0] is undefined when the array
\* is empty, and reading .sender of it throws a TypeError that ends the loop).
RECURSIVE ForEachEntry(_, _, _)
ForEachEntry(req, entry, i) ==
  IF i > Len(entry)
    THEN [calls |-> <<>>, threw |-> FALSE]
    ELSE IF Len(entry[i].messaging) = 0
      THEN [calls |-> <<>>, threw |-> TRUE]
      ELSE LET webhook_event == entry[i].messaging[1]
               sender_id == webhook_event.sender
               message_text == MessageText(webhook_event)
               rest == ForEachEntry(req, entry, i + 1)
           IN  IF ShouldDispatch(message_text)
                 THEN [calls |-> << HandleMessageCall(req, i, sender_id, message_text) >> \o rest.calls,
                       threw |-> rest.threw]
                 ELSE rest

\* Mutant: the handler accepts every body that names an object.
IsPageEventAnyObject(body) == body.object # Undefined

\* The check that the event comes from a page subscription.
IsPageEvent(body) == body.object = "page"

\* Mutant: the acknowledgment is not written by the handler itself but left to
\* a continuation that runs once the responders have settled.
AcknowledgeDeferred == NoResponse

\* The acknowledgment written after the forEach.
Acknowledge == Send(200, "EVENT_RECEIVED")

\* The whole POST handler: the handleMessage calls made and the response.
Receive(req, body) ==
  IF IsPageEvent(body)
    THEN LET r == ForEachEntry(req, body.entry, 1)
         IN  [calls |-> r.calls,
              res |-> IF r.threw THEN UncaughtError ELSE Acknowledge]
    ELSE [calls |-> <<>>, res |-> SendStatus(404)]

\* ------------------------------------------------------------ responder
FALLBACK == "Sorry, I'm having a little trouble right now. Please try again later."

\* What the generative service returns for a prompt.
Generated(prompt) == << "completion of", prompt >>

\* Mutant: the recipient is read from a variable shared by the invocations,
\* which holds the sender of the latest dispatched message.
request_body_shared(recipientId, text) ==
  [recipient |-> [id |-> IF tasks = <<>> THEN recipientId ELSE tasks[Len(tasks)].senderId],
   message |-> [text |-> text]]

\* The body sendReply posts to the message-delivery API.
request_body(recipientId, text) ==
  [recipient |-> [id |-> recipientId], message |-> [text |-> text]]

\* Mutant: sendReply logs the failure of the post and throws it again.
SendReplyRethrows(httpOutcome) ==
  IF httpOutcome = "error" THEN "rejected" ELSE "fulfilled"

\* How the promise of sendReply settles, given how axios.post settled: the
\* try/catch around the post logs a failure and swallows it.
SendReplySettles(httpOutcome) == "fulfilled"

\* ---------------------------------------------------------------- actions
Init ==
  /\ nreq = 0
  /\ last = [id |-> 0, method |-> "NONE", query |-> NoQuery, body |-> NoBody,
             res |-> NoResponse]
  /\ tasks = <<>>

\* app.get('/webhook', ...) run on one request.
GetWebhook(q) ==
  /\ nreq < MaxRequests
  /\ nreq' = nreq + 1
  /\ last' = [id |-> nreq + 1, method |-> "GET", query |-> q, body |-> NoBody,
              res |-> VerifyResponse(q.mode, q.token, q.challenge)]
  /\ UNCHANGED tasks

\* app.post('/webhook', ...) run on one request.
PostWebhook(b) ==
  /\ nreq < MaxRequests
  /\ LET r == Receive(nreq + 1, b)
     IN  /\ Len(tasks) + Len(r.calls) <= MaxTasks
         /\ nreq' = nreq + 1
         /\ last' = [id |-> nreq + 1, method |-> "POST", query |-> NoQuery,
                     body |-> b, res |-> r.res]
         /\ tasks' = tasks \o r.calls

\* handleMessage calls sendReply(senderId, text): the post is in flight.
CallSendReply(t, text, pc) ==
  [t EXCEPT !.sent = Append(@, request_body(t.senderId, text)), !.pc = pc]

\* Mutant: the catch block logs the error and sends nothing.
CatchBlockLogsOnly(t) == [t EXCEPT !.pc = "done"]

\* The catch block of handleMessage: sendReply is called with the fallback.
CatchBlock(t) == CallSendReply(t, FALLBACK, "send_fallback")

\* model.generateContent resolves and response.text() returns: the
\* continuation logs the text and calls sendReply with it.
GenerateContentResolves(i) ==
  /\ i \in 1..Len(tasks)
  /\ tasks[i].pc = "gen"
  /\ LET aiText == Generated(tasks[i].prompt)
         t == [tasks[i] EXCEPT !.genOutcome = "ok"]
     IN  tasks' = [tasks EXCEPT ![i] = CallSendReply(t, aiText, "send_ai")]
  /\ UNCHANGED <<nreq, last>>

\* model.generateContent rejects, or result.response rejects, or
\* response.text() throws: the catch block calls sendReply with the fallback.
GenerateContentFails(i) ==
  /\ i \in 1..Len(tasks)
  /\ tasks[i].pc = "gen"
  /\ LET t == [tasks[i] EXCEPT !.genOutcome = "error"]
     IN  tasks' = [tasks EXCEPT ![i] = CatchBlock(t)]
  /\ UNCHANGED <<nreq, last>>

\* The continuation of handleMessage after `await sendReply(...)` settles.
AfterSendReply(t, settled) ==
  IF settled = "fulfilled"
    THEN [t EXCEPT !.pc = "done"]
    ELSE IF t.pc = "send_ai"
      THEN CatchBlock(t)
      ELSE [t EXCEPT !.pc = "rejected"]

\* axios.post settles (httpOutcome "ok" or "error"); sendReply logs and
\* settles, and handleMessage continues.
AxiosPostSettles(i, httpOutcome) ==
  /\ i \in 1..Len(tasks)
  /\ tasks[i].pc \in {"send_ai", "send_fallback"}
  /\ LET t == [tasks[i] EXCEPT !.sendErrors = IF httpOutcome = "error" THEN @ + 1 ELSE @]
     IN  tasks' = [tasks EXCEPT ![i] = AfterSendReply(t, SendReplySettles(httpOutcome))]
  /\ UNCHANGED <<nreq, last>>

Next ==
  \/ \E q \in Queries : GetWebhook(q)
  \/ \E b \in Bodies : PostWebhook(b)
  \/ \E i \in 1..MaxTasks : GenerateContentResolves(i)
  \/ \E i \in 1..MaxTasks : GenerateContentFails(i)
  \/ \E i \in 1..MaxTasks, o \in {"ok", "error"} : AxiosPostSettles(i, o)

Spec == Init /\ [][Next]_vars

\* ------------------------------------------------------------ properties
IsGet == last.method = "GET"
IsPost == last.method = "POST"

\* The invocations dispatched by request r, in dispatch order.
DispatchedBy(r) == SelectSeq(tasks, LAMBDA t : t.req = r)

\* The first messaging event of an entry carries text that is present and
\* non-empty.
FirstEventHasText(e) ==
  /\ Len(e.messaging) > 0
  /\ e.messaging[1].message.present
  /\ e.messaging[1].message.text \notin {Undefined, ""}

\* The (sender.id, message.text) pairs of the entries whose first event has
\* text, in the order of the entries.
RECURSIVE TextEvents(_)
TextEvents(entry) ==
  IF entry = <<>>
    THEN <<>>
    ELSE (IF FirstEventHasText(Head(entry))
            THEN << << Head(entry).messaging[1].sender,
                       Head(entry).messaging[1].message.text >> >>
            ELSE <<>>) \o TextEvents(Tail(entry))

\* The (senderId, messageText) pairs the invocations of request r were made with.
ArgumentsOf(r) ==
  LET d == DispatchedBy(r)
  IN  [k \in 1..Len(d) |-> << d[k].senderId, d[k].messageText >>]

FallbackBody(id) ==
  [recipient |-> [id |-> id],
   message |-> [text |-> "Sorry, I'm having a little trouble right now. Please try again later."]]

\* C1: a GET with hub.mode "subscribe" and hub.verify_token equal to the
\* configured secret is answered 200 with the supplied hub.challenge as body
\* (an empty body when no challenge is supplied).
C1_VerifyEchoesChallenge ==
  (IsGet /\ last.query.mode = "subscribe" /\ last.query.token = WEBHOOK_VERIFY_TOKEN)
    => /\ last.res.status = 200
       /\ last.res.body = (IF last.query.challenge = Undefined THEN "" ELSE last.query.challenge)

C1_Witness ==
  /\ IsGet
  /\ last.query = [mode |-> "subscribe", token |-> WEBHOOK_VERIFY_TOKEN, challenge |-> "abc"]
  /\ last.res = [status |-> 200, body |-> "abc"]

\* C2 (as claimed): a GET that supplies a hub.verify_token differing from the
\* configured secret is answered 403, whatever the values or presence of
\* hub.mode and hub.challenge.
C2_MismatchAlways403 ==
  (IsGet /\ last.query.token \notin {Undefined, "", WEBHOOK_VERIFY_TOKEN})
    => last.res.status = 403

\* C3: a POST whose object is not "page" is answered 404 and dispatches no
\* responder, so it causes no generative call and no delivery.
C3_NonPageIs404NoDispatch ==
  (IsPost /\ last.body.object # "page")
    => /\ last.res.status = 404
       /\ DispatchedBy(last.id) = <<>>

C3_Witness ==
  /\ IsPost
  /\ last.body.object = "user"
  /\ \E k \in 1..Len(last.body.entry) : FirstEventHasText(last.body.entry[k])
  /\ last.res.status = 404
  /\ DispatchedBy(last.id) = <<>>

\* C4 (as claimed): a POST whose object is "page" is answered 200 with body
\* "EVENT_RECEIVED", whatever its entries hold.
C4_PageAlwaysAcknowledged ==
  (IsPost /\ last.body.object = "page")
    => last.res = [status |-> 200, body |-> "EVENT_RECEIVED"]

\* C5 (as claimed): for a POST whose object is "page", a responder is
\* dispatched for exactly the entries whose first messaging event has
\* non-empty text, with that event's sender.id and message.text.
C5_DispatchIffFirstEventText ==
  (IsPost /\ last.body.object = "page")
    => ArgumentsOf(last.id) = TextEvents(last.body.entry)

\* C6: once the generative call of an invocation has failed, the invocation
\* has posted exactly the fallback text to its own sender and it does not
\* reject.
C6_FailureSendsFallback ==
  \A i \in 1..Len(tasks) :
    tasks[i].genOutcome = "error"
      => /\ tasks[i].sent = << FallbackBody(tasks[i].senderId) >>
         /\ tasks[i].pc \in {"send_fallback", "done"}

C6_Witness ==
  \E i \in 1..Len(tasks) :
    /\ tasks[i].genOutcome = "error"
    /\ tasks[i].pc = "done"
    /\ tasks[i].sent = << FallbackBody(tasks[i].senderId) >>
    /\ last.id = tasks[i].req
    /\ last.res = [status |-> 200, body |-> "EVENT_RECEIVED"]

C8_ExactlyOneDelivery ==
  \A i \in 1..Len(tasks) :
    /\ tasks[i].pc = "gen" <=> tasks[i].sent = <<>>
    /\ tasks[i].pc # "gen" => Len(tasks[i].sent) = 1
    /\ tasks[i].sendErrors > 0 => tasks[i].pc = "done" /\ tasks[i].sendErrors = 1
    /\ tasks[i].genOutcome = "ok"
         => tasks[i].sent = << [recipient |-> [id |-> tasks[i].senderId],
                                message |-> [text |-> Generated(tasks[i].prompt)]] >>

C8_Witness ==
  \E i \in 1..Len(tasks) :
    /\ tasks[i].genOutcome = "ok"
    /\ tasks[i].sendErrors = 1
    /\ tasks[i].pc = "done"
    /\ Len(tasks[i].sent) = 1

\* C9: every delivery request of an invocation names as recipient the sender
\* the invocation was dispatched for, and carries the fallback text or the
\* completion of the prompt built from the invocation's own text; for the
\* invocations of the latest request these are the sender and text of the
\* first event of the entry that dispatched them.
C9_NoInterference ==
  \A i \in 1..Len(tasks) :
    /\ \A k \in 1..Len(tasks[i].sent) :
         /\ tasks[i].sent[k].recipient.id = tasks[i].senderId
         /\ \/ tasks[i].sent[k] = FallbackBody(tasks[i].senderId)
            \/ tasks[i].sent[k].message.text = Generated(Prompt(tasks[i].messageText))
    /\ tasks[i].req = last.id
         => LET ev == last.body.entry[tasks[i].entry].messaging[1]
            IN  /\ tasks[i].senderId = ev.sender
                /\ tasks[i].messageText = ev.message.text

C9_Witness ==
  /\ Len(tasks) = 2
  /\ tasks[1].req # tasks[2].req
  /\ tasks[1].senderId # tasks[2].senderId
  /\ tasks[1].pc = "gen"
  /\ tasks[2].pc = "done"
  /\ tasks[2].sent[1].message.text = Generated(Prompt(tasks[2].messageText))

\* C10: a GET in which hub.mode or hub.verify_token is absent or empty has no
\* response written, neither by the handler nor by any later step.
C10_AbsentParameterUnanswered ==
  (IsGet /\ (last.query.mode \in {Undefined, ""} \/ last.query.token \in {Undefined, ""}))
    => last.res = NoResponse

C10_Witness ==
  /\ IsGet
  /\ last.query.mode = Undefined
  /\ last.query.token = "WRONG"
  /\ last.res = NoResponse
  /\ \E i \in 1..Len(tasks) : tasks[i].pc = "done"

====
